---------------------------- MODULE Spec2Model ----------------------------
(***************************************************************************)
(* Model of app.py, the Google Play Store dashboard: the cached loader     *)
(* load_data (acquisition, cleaning, popularity score), the two sidebar    *)
(* filters, the two halting guards and the KPI row, re-run by Streamlit    *)
(* from the top on every widget change.                                    *)
(*                                                                         *)
(* Representation.                                                         *)
(*  - A text cell is a sequence of one-character strings, so that          *)
(*    str.replace and pd.to_numeric act on characters as they do in the    *)
(*    code.  App, Category and Type are only ever compared for equality    *)
(*    and are kept as plain strings.                                       *)
(*  - A missing cell is NaN in a numeric column, NaText in a column of     *)
(*    character cells and NaLabel in App, Category and Type.               *)
(*  - A number is an exact decimal [m |-> mantissa, d |-> decimals],       *)
(*    meaning m / 10^d, kept canonical (no trailing zero decimals), so     *)
(*    that "0" and "0.0" are the same number.  Quotients are exact         *)
(*    fractions; IEEE rounding is not modelled, the IEEE results of        *)
(*    dividing by zero (inf, -inf, NaN) are.                               *)
(*  - A raw table is the content of googleplaystore.csv, row by row.       *)
(*    ReadCsv turns it into the DataFrame, inferring the dtype of the      *)
(*    Category column from its cells; Rating is float64.                   *)
(***************************************************************************)
EXTENDS Integers, Sequences, FiniteSets

(* float NaN, and the missing cell of the two kinds of text column         *)
NaN == [kind |-> "nan"]
NaText == <<"NaN">>
NaLabel == "NaN"

(* largest number of rows of a raw table                                   *)
MaxRows == 2

VARIABLES
    acquisitionOk,      \* whether dataset_download and read_csv succeed
    raw,                \* the rows of googleplaystore.csv when they do
    cache,              \* st.cache_data entry of load_data
    choice,             \* session state of the two selectboxes
    narrowed,           \* history: some run of the session used a specific selection
    pc,                 \* position of the current script run
    df,                 \* script variable df
    selected_category,  \* script variable selected_category
    selected_type,      \* script variable selected_type
    df_filtered,        \* script variable df_filtered
    messages,           \* st.error messages shown by the current run
    kpi,                \* the four metrics of the KPI row
    price_chart         \* what the price-distribution column shows

vars == <<acquisitionOk, raw, cache, choice, narrowed, pc, df, selected_category,
          selected_type, df_filtered, messages, kpi, price_chart>>

-----------------------------------------------------------------------------
(* Exact decimals and fractions                                            *)

Digits == {"0", "1", "2", "3", "4", "5", "6", "7", "8", "9"}

DigitVal(c) ==
    CASE c = "0" -> 0 [] c = "1" -> 1 [] c = "2" -> 2 [] c = "3" -> 3
      [] c = "4" -> 4 [] c = "5" -> 5 [] c = "6" -> 6 [] c = "7" -> 7
      [] c = "8" -> 8 [] c = "9" -> 9

RECURSIVE Pow10(_)
Pow10(k) == IF k = 0 THEN 1 ELSE 10 * Pow10(k - 1)

RECURSIVE Canon(_, _)
Canon(m, d) ==
    IF d > 0 /\ m % 10 = 0 THEN Canon(m \div 10, d - 1) ELSE [m |-> m, d |-> d]

Abs(x) == IF x < 0 THEN -x ELSE x

RECURSIVE Gcd(_, _)
Gcd(a, b) == IF b = 0 THEN a ELSE Gcd(b, a % b)

(* n / q as a float: a reduced fraction with positive denominator, or the  *)
(* IEEE value of a division by zero.                                       *)
Fraction(n, q) ==
    IF q = 0
    THEN (IF n = 0 THEN NaN
          ELSE IF n > 0 THEN [kind |-> "inf"] ELSE [kind |-> "-inf"])
    ELSE LET g == Gcd(Abs(n), Abs(q))
             s == IF q < 0 THEN -1 ELSE 1
         IN  [kind |-> "num", n |-> s * (n \div g), q |-> s * (q \div g)]

(* x / y for two decimals, elementwise Series division                     *)
Divide(x, y) == Fraction(x.m * Pow10(y.d), y.m * Pow10(x.d))

-----------------------------------------------------------------------------
(* String cells                                                            *)

(* Series.astype(str): a missing cell becomes the text "nan"               *)
AsTypeStr(v) == IF v = NaText THEN <<"n", "a", "n">> ELSE v

(* Series.str.replace(pat, '', regex=...) for a one-character pattern.     *)
(* With regex=True the pattern is a regular expression: "$" and "^" are    *)
(* zero-width anchors, so the only match is the empty string at the end    *)
(* (start) of the cell and replacing it by '' leaves the cell as it was;   *)
(* "," is an ordinary character.  With regex=False every occurrence of    *)
(* the character is removed.  (This is pandas from 2.0 on; pandas 1.x      *)
(* read every one-character pattern literally, whatever regex said.)       *)
RegexAnchors == {"$", "^"}

StrReplace(s, pat, regex) ==
    IF regex /\ pat \in RegexAnchors
    THEN s
    ELSE SelectSeq(s, LAMBDA c : c # pat)

(* pd.to_numeric(..., errors='coerce') on one cell: optional sign, digits  *)
(* with at most one decimal point and at least one digit; anything else    *)
(* (including "nan" and the empty string) is coerced to NaN.  Exponents,   *)
(* "inf" and surrounding blanks, which to_numeric also reads, occur in no  *)
(* cell of RawRows and are not covered.                                    *)
Unsigned(s) ==
    IF Len(s) > 0 /\ s[1] \in {"-", "+"} THEN Tail(s) ELSE s

IsNumericStr(s) ==
    LET u == Unsigned(s)
    IN  /\ \A i \in 1..Len(u) : u[i] \in Digits \cup {"."}
        /\ Cardinality({i \in 1..Len(u) : u[i] = "."}) <= 1
        /\ \E i \in 1..Len(u) : u[i] \in Digits

RECURSIVE Mantissa(_, _)
Mantissa(u, acc) ==
    IF u = <<>> THEN acc
    ELSE IF u[1] = "." THEN Mantissa(Tail(u), acc)
    ELSE Mantissa(Tail(u), 10 * acc + DigitVal(u[1]))

Decimals(u) ==
    IF \E i \in 1..Len(u) : u[i] = "."
    THEN Len(u) - (CHOOSE i \in 1..Len(u) : u[i] = ".")
    ELSE 0

ToNumeric(v) ==
    IF v = NaText THEN NaN
    ELSE IF ~IsNumericStr(v) THEN NaN
    ELSE LET u   == Unsigned(v)
             sgn == IF v[1] = "-" THEN -1 ELSE 1
         IN  Canon(sgn * Mantissa(u, 0), Decimals(u))

-----------------------------------------------------------------------------
(* Raw tables                                                              *)

Dec(m, d) == Canon(m, d)

T_0 == <<"0">>
T_100 == <<"1", "0", "0">>
T_neg5 == <<"-", "5">>
T_3_0M == <<"3", ".", "0", "M">>
T_0plus == <<"0", "+">>
T_1000plus == <<"1", ",", "0", "0", "0", "+">>
T_10000plus == <<"1", "0", ",", "0", "0", "0", "+">>
T_Free == <<"F", "r", "e", "e">>
T_4_99 == <<"4", ".", "9", "9">>
T_dollar4_99 == <<"$", "4", ".", "9", "9">>
T_Everyone == <<"E", "v", "e", "r", "y", "o", "n", "e">>
T_19M == <<"1", "9", "M">>
T_Varies == <<"V", "a", "r", "i", "e", "s", " ", "w", "i", "t", "h", " ",
              "d", "e", "v", "i", "c", "e">>

(* a well-formed free app and a well-formed paid app                       *)
FreeApp ==
    [App |-> "Sudoku", Category |-> "GAME", Rating |-> Dec(45, 1),
     Reviews |-> T_100, Size |-> T_19M, Installs |-> T_1000plus,
     Type |-> "Free", Price |-> T_0]

PaidApp ==
    [App |-> "Notes", Category |-> "TOOLS", Rating |-> Dec(3, 0),
     Reviews |-> T_100, Size |-> T_Varies, Installs |-> T_10000plus,
     Type |-> "Paid", Price |-> T_4_99]

(* The rows a raw table is made of: the two apps above, the paid app as    *)
(* the store prints it, and the free app with one cell replaced by each    *)
(* other shape that cell takes in the dataset (shifted columns, missing    *)
(* values, out-of-range numbers).                                          *)
RawRows ==
    {FreeApp, PaidApp, [PaidApp EXCEPT !.Price = T_dollar4_99]}
    \cup {[FreeApp EXCEPT !.App = v] : v \in {"Life Made Better"}}
    \cup {[FreeApp EXCEPT !.Category = v] : v \in {"1.9", "TOOLS", NaLabel}}
    \cup {[FreeApp EXCEPT !.Rating = v] : v \in {NaN, Dec(19, 0)}}
    \cup {[FreeApp EXCEPT !.Reviews = v] : v \in {T_0, T_neg5, T_3_0M}}
    \cup {[FreeApp EXCEPT !.Installs = v] :
            v \in {T_10000plus, T_0plus, T_Free, NaText}}
    \cup {[FreeApp EXCEPT !.Price = v] : v \in {T_4_99, T_dollar4_99, T_Everyone}}
    \cup {[FreeApp EXCEPT !.Type = v] : v \in {"Paid", NaLabel}}

RawTables == UNION {[1..n -> RawRows] : n \in 0..MaxRows}

-----------------------------------------------------------------------------
(* load_data: pd.read_csv                                                  *)

(* the Category cells of RawRows that the CSV parser reads as a number     *)
NumericCategoryCells == {"1.9"}

(* the cell 1.9 of a float64 Category column, as opposed to the text "1.9" *)
(* of an object column                                                     *)
Float_1_9 == "1.9 (float64)"

(* dtype inference: a column whose cells are all numbers or blank is       *)
(* float64, any other column is object and keeps its cells as text.  Of    *)
(* the columns of RawRows only Category changes the behaviour of the code  *)
(* with its dtype: App, Size and Installs hold a non-numeric cell or only  *)
(* blanks, Type is compared with text no cell of a float column equals,    *)
(* and a numeric Reviews or Price column holds the numbers to_numeric      *)
(* reads from the same cells.                                              *)
CategoryIsFloat(t) ==
    \A i \in 1..Len(t) : t[i].Category \in NumericCategoryCells \cup {NaLabel}

ReadCategory(t, c) ==
    IF CategoryIsFloat(t) /\ c \in NumericCategoryCells THEN Float_1_9 ELSE c

-----------------------------------------------------------------------------
(* load_data: cleaning                                                     *)

(* the DataFrame of a CSV: inferred Category cells, and the RangeIndex     *)
(* whose labels drop and dropna keep                                       *)
ReadCsv(t) ==
    [i \in 1..Len(t) |->
        [idx |-> i, App |-> t[i].App,
         Category |-> ReadCategory(t, t[i].Category),
         Rating |-> t[i].Rating, Reviews |-> t[i].Reviews, Size |-> t[i].Size,
         Installs |-> t[i].Installs, Type |-> t[i].Type, Price |-> t[i].Price]]

DropLifeMadeBetter(t) == SelectSeq(t, LAMBDA r : r.App # "Life Made Better")

(* df['Category'] == '1.9' is a comparison with text: it is true of the    *)
(* text "1.9" of an object column and of no cell of a float64 column       *)
DropCategory19(t) == SelectSeq(t, LAMBDA r : r.Category # "1.9")

CleanInstallsKeepingCommas(v) ==
    ToNumeric(StrReplace(AsTypeStr(v), "+", FALSE))

CleanInstalls(v) ==
    ToNumeric(StrReplace(StrReplace(AsTypeStr(v), "+", FALSE), ",", TRUE))

CleanReviews(v) == ToNumeric(v)

CleanPrice(v) == ToNumeric(StrReplace(AsTypeStr(v), "$", TRUE))

CleanSize(v) ==
    LET s == StrReplace(StrReplace(StrReplace(AsTypeStr(v), "M", FALSE),
                                   "k", FALSE), ",", TRUE)
    IN  IF s = T_Varies THEN NaN ELSE ToNumeric(s)

ConvertRow(r) ==
    [r EXCEPT !.Installs = CleanInstalls(r.Installs),
              !.Reviews = CleanReviews(r.Reviews),
              !.Price = CleanPrice(r.Price),
              !.Size = CleanSize(r.Size)]

ConvertColumns(t) == [i \in 1..Len(t) |-> ConvertRow(t[i])]

DropNa(t) ==
    SelectSeq(t, LAMBDA r :
        /\ r.Rating # NaN
        /\ r.Installs # NaN
        /\ r.Reviews # NaN
        /\ r.Price # NaN
        /\ r.Category # NaLabel
        /\ r.Type # NaLabel)

PopularityScore(r) == Divide(r.Reviews, r.Installs)

AddPopularity(t) ==
    [i \in 1..Len(t) |->
        [idx |-> t[i].idx, App |-> t[i].App, Category |-> t[i].Category,
         Rating |-> t[i].Rating, Reviews |-> t[i].Reviews, Size |-> t[i].Size,
         Installs |-> t[i].Installs, Type |-> t[i].Type, Price |-> t[i].Price,
         Popularity_Score |-> PopularityScore(t[i])]]

Clean(t) ==
    AddPopularity(DropNa(ConvertColumns(
        DropCategory19(DropLifeMadeBetter(ReadCsv(t))))))

-----------------------------------------------------------------------------
(* Filters and metrics                                                     *)

(* df.empty                                                                *)
IsEmpty(t) == Len(t) = 0

AllCategories(t) == {"Todas"} \cup {t[i].Category : i \in 1..Len(t)}

AllTypes(t) == {"Ambos"} \cup {t[i].Type : i \in 1..Len(t)}

FilterCategory(t, c) ==
    IF c # "Todas" THEN SelectSeq(t, LAMBDA r : r.Category = c) ELSE t

FilterTypeIgnored(t, ty) == t

FilterType(t, ty) ==
    IF ty # "Ambos" THEN SelectSeq(t, LAMBDA r : r.Type = ty) ELSE t

ApplyFilters(t, c, ty) == FilterType(FilterCategory(t, c), ty)

(* the two guards that end a run with st.stop()                            *)
LoadGuardNever(t) == FALSE

LoadGuardStops(t) == IsEmpty(t)

FilterGuardNever(t) == FALSE

FilterGuardStops(t) == IsEmpty(t)

(* filtering works on df.copy() and rebinds df_filtered: the memoized      *)
(* table is not touched                                                    *)
CacheFilteredInPlace(entry, filtered) == [entry EXCEPT !.value = filtered]

CacheAfterFiltering(entry, filtered) == entry

(* order of floats; NaN is handled by the callers                          *)
FracLess(a, b) ==
    IF a.kind = "-inf" THEN b.kind # "-inf"
    ELSE IF a.kind = "inf" THEN FALSE
    ELSE IF b.kind = "inf" THEN TRUE
    ELSE IF b.kind = "-inf" THEN FALSE
    ELSE a.n * b.q < b.n * a.q

DecLess(x, y) == x.m * Pow10(y.d) < y.m * Pow10(x.d)

(* Series.max() and Series.idxmax(): NaN skipped, first maximum wins       *)
ScoreMaxPos(t) ==
    LET P == {i \in 1..Len(t) : t[i].Popularity_Score # NaN}
    IN  IF P = {} THEN 0
        ELSE CHOOSE i \in P :
                /\ \A j \in P : ~FracLess(t[i].Popularity_Score,
                                          t[j].Popularity_Score)
                /\ \A j \in P : j < i =>
                      FracLess(t[j].Popularity_Score, t[i].Popularity_Score)

PriceMaxPos(t) ==
    IF Len(t) = 0 THEN 0
    ELSE CHOOSE i \in 1..Len(t) :
            /\ \A j \in 1..Len(t) : ~DecLess(t[i].Price, t[j].Price)
            /\ \A j \in 1..Len(t) : j < i => DecLess(t[j].Price, t[i].Price)

(* Series.mean() of Rating                                                 *)
RECURSIVE SumScaled(_, _)
SumScaled(t, D) ==
    IF t = <<>> THEN 0
    ELSE t[1].Rating.m * Pow10(D - t[1].Rating.d) + SumScaled(Tail(t), D)

MaxDecimals(t) ==
    IF Len(t) = 0 THEN 0
    ELSE LET ds == {t[i].Rating.d : i \in 1..Len(t)}
         IN  CHOOSE d \in ds : \A e \in ds : e <= d

MeanRating(t) ==
    LET D == MaxDecimals(t)
    IN  Fraction(SumScaled(t, D), Len(t) * Pow10(D))

NonNegative(f) == f.kind = "inf" \/ (f.kind = "num" /\ f.n >= 0)

Kpi3(t) ==
    LET i == ScoreMaxPos(t)
    IN  IF ~IsEmpty(t) /\ i # 0 /\ NonNegative(t[i].Popularity_Score)
        THEN [score |-> t[i].Popularity_Score, app |-> t[i].App]
        ELSE [score |-> "N/A"]

Kpi4(t) ==
    LET i == PriceMaxPos(t)
    IN  IF ~IsEmpty(t) /\ i # 0 /\ t[i].Price.m > 0
        THEN [price |-> t[i].Price, app |-> t[i].App]
        ELSE [price |-> Dec(0, 0)]

Kpis(t) ==
    [count |-> Len(t), avg_rating |-> MeanRating(t),
     popular |-> Kpi3(t), priciest |-> Kpi4(t)]

PriceChart(t) ==
    LET paid == SelectSeq(t, LAMBDA r : r.Type = "Paid")
        i    == PriceMaxPos(paid)
    IN  IF ~IsEmpty(paid) /\ i # 0 /\ paid[i].Price.m > 0
        THEN "histogram" ELSE "info"

-----------------------------------------------------------------------------
(* The session                                                             *)

ERR_KAGGLE == "Erro ao carregar os dados do Kaggle Hub"
ERR_DETAIL == "Detalhe do erro"
ERR_INTERRUPTED == "O aplicativo foi interrompido devido a um erro na autenticacao ou carregamento de dados"
ERR_NO_MATCH == "Nenhum dado corresponde aos filtros selecionados"

NotCached == [cached |-> FALSE]
Unset == "unset"
NotComputed == [computed |-> FALSE]
NoTable == <<>>

FreshRun ==
    /\ pc' = "load"
    /\ df' = NoTable
    /\ selected_category' = Unset
    /\ selected_type' = Unset
    /\ df_filtered' = NoTable
    /\ messages' = {}
    /\ kpi' = NotComputed
    /\ price_chart' = Unset

Init ==
    /\ acquisitionOk \in BOOLEAN
    /\ raw \in (IF acquisitionOk THEN RawTables ELSE {NoTable})
    /\ cache = NotCached
    /\ choice = [category |-> "Todas", type |-> "Ambos"]
    /\ narrowed = FALSE
    /\ pc = "load"
    /\ df = NoTable
    /\ selected_category = Unset
    /\ selected_type = Unset
    /\ df_filtered = NoTable
    /\ messages = {}
    /\ kpi = NotComputed
    /\ price_chart = Unset

(* df = load_data(), first call of the session: the body runs and its      *)
(* return value and the elements it showed are memoized                    *)
LoadDataMiss ==
    /\ pc = "load"
    /\ ~cache.cached
    /\ LET failed == ~acquisitionOk
           value  == IF failed THEN NoTable ELSE Clean(raw)
           shown  == IF failed THEN {ERR_KAGGLE, ERR_DETAIL} ELSE {}
       IN  /\ df' = value
           /\ messages' = messages \cup shown
           /\ cache' = [cached |-> TRUE, value |-> value, shown |-> shown]
    /\ pc' = "guard_load"
    /\ UNCHANGED <<acquisitionOk, raw, choice, narrowed, selected_category,
                   selected_type, df_filtered, kpi, price_chart>>

(* df = load_data(), later runs: the memoized value is returned and the    *)
(* memoized elements are replayed                                          *)
LoadDataHit ==
    /\ pc = "load"
    /\ cache.cached
    /\ df' = cache.value
    /\ messages' = messages \cup cache.shown
    /\ pc' = "guard_load"
    /\ UNCHANGED <<acquisitionOk, raw, cache, choice, narrowed,
                   selected_category, selected_type, df_filtered, kpi,
                   price_chart>>

(* if df.empty: st.error(...); st.stop()                                   *)
GuardLoad ==
    /\ pc = "guard_load"
    /\ IF LoadGuardStops(df)
       THEN /\ messages' = messages \cup {ERR_INTERRUPTED}
            /\ pc' = "stop_load"
       ELSE /\ messages' = messages
            /\ pc' = "widgets"
    /\ UNCHANGED <<acquisitionOk, raw, cache, choice, narrowed, df,
                   selected_category, selected_type, df_filtered, kpi,
                   price_chart>>

(* the two selectboxes return the session's current choice                 *)
Widgets ==
    /\ pc = "widgets"
    /\ selected_category' =
          IF choice.category \in AllCategories(df) THEN choice.category
          ELSE "Todas"
    /\ selected_type' =
          IF choice.type \in AllTypes(df) THEN choice.type ELSE "Ambos"
    /\ pc' = "filter"
    /\ UNCHANGED <<acquisitionOk, raw, cache, choice, narrowed, df,
                   df_filtered, messages, kpi, price_chart>>

(* df_filtered = df.copy(), the two filters, the empty-result guard        *)
Filter ==
    /\ pc = "filter"
    /\ LET filtered == ApplyFilters(df, selected_category, selected_type)
       IN  /\ df_filtered' = filtered
           /\ cache' = CacheAfterFiltering(cache, filtered)
           /\ IF FilterGuardStops(filtered)
              THEN /\ messages' = messages \cup {ERR_NO_MATCH}
                   /\ pc' = "stop_filter"
              ELSE /\ messages' = messages
                   /\ pc' = "kpis"
    /\ narrowed' = (narrowed \/ selected_category # "Todas"
                             \/ selected_type # "Ambos")
    /\ UNCHANGED <<acquisitionOk, raw, choice, df, selected_category,
                   selected_type, kpi, price_chart>>

(* the KPI row                                                             *)
ComputeKpis ==
    /\ pc = "kpis"
    /\ kpi' = Kpis(df_filtered)
    /\ pc' = "charts"
    /\ UNCHANGED <<acquisitionOk, raw, cache, choice, narrowed, df,
                   selected_category, selected_type, df_filtered, messages,
                   price_chart>>

(* the charts; only the branch of the price column is kept                 *)
Charts ==
    /\ pc = "charts"
    /\ price_chart' = PriceChart(df_filtered)
    /\ pc' = "done"
    /\ UNCHANGED <<acquisitionOk, raw, cache, choice, narrowed, df,
                   selected_category, selected_type, df_filtered, messages,
                   kpi>>

(* the user changes a selectbox of the rendered page: Streamlit re-runs    *)
(* the script from the top                                                 *)
Reselect ==
    /\ pc \in {"done", "stop_filter"}
    /\ \E c \in AllCategories(df), ty \in AllTypes(df) :
          /\ [category |-> c, type |-> ty] # choice
          /\ choice' = [category |-> c, type |-> ty]
    /\ FreshRun
    /\ UNCHANGED <<acquisitionOk, raw, cache, narrowed>>

(* the user asks for a re-run of a page that was stopped at the load guard *)
Rerun ==
    /\ pc = "stop_load"
    /\ FreshRun
    /\ UNCHANGED <<acquisitionOk, raw, cache, choice, narrowed>>

Next ==
    \/ LoadDataMiss
    \/ LoadDataHit
    \/ GuardLoad
    \/ Widgets
    \/ Filter
    \/ ComputeKpis
    \/ Charts
    \/ Reselect
    \/ Rerun

Spec == Init /\ [][Next]_vars

-----------------------------------------------------------------------------
(* Properties                                                              *)

(* df holds what load_data returned to the current run                     *)
Returned == pc # "load"

PostFilter == {"stop_filter", "kpis", "charts", "done"}

Survives(i) == \E k \in 1..Len(df) : df[k].idx = i

SurvivesWithPrice(i, p) ==
    \E k \in 1..Len(df) : df[k].idx = i /\ df[k].Price = p

SurvivesWithInstalls(i, n) ==
    \E k \in 1..Len(df) : df[k].idx = i /\ df[k].Installs = n

(* raw cells that are well formed, listed literally                        *)
GoodApp(r) == r.App # "Life Made Better"
GoodCategory(r) == r.Category \in {"GAME", "TOOLS"}
GoodRating(r) == r.Rating \in {Dec(45, 1), Dec(3, 0)}
GoodReviews(r) == r.Reviews \in {T_0, T_100}
GoodInstalls(r) == r.Installs \in {T_1000plus, T_10000plus}
GoodType(r) == r.Type \in {"Free", "Paid"}
GoodPrice(r) == r.Price \in {T_0, T_4_99}

InUnit(x) == x.m >= 0 /\ ~DecLess(Dec(5, 0), x)

(* C1: every row load_data returns has rating in [0,5], installs >= 0,     *)
(* reviews >= 0, price >= 0 and non-null category and type.                *)
C1_CleanedRowsInRange ==
    Returned =>
        \A k \in 1..Len(df) :
            /\ InUnit(df[k].Rating)
            /\ df[k].Installs.m >= 0
            /\ df[k].Reviews.m >= 0
            /\ df[k].Price.m >= 0
            /\ df[k].Category # NaLabel
            /\ df[k].Type # NaLabel

(* C2: an otherwise valid row priced "$4.99" is retained with price 4.99,  *)
(* and one priced "0" is retained with price 0.0.                          *)
C2_PriceNormalized ==
    (Returned /\ acquisitionOk) =>
        \A i \in 1..Len(raw) :
            (/\ GoodApp(raw[i]) /\ GoodCategory(raw[i]) /\ GoodRating(raw[i])
             /\ GoodReviews(raw[i]) /\ GoodInstalls(raw[i]) /\ GoodType(raw[i]))
            => /\ raw[i].Price = T_dollar4_99 =>
                    SurvivesWithPrice(i, Dec(499, 2))
               /\ raw[i].Price = T_0 =>
                    SurvivesWithPrice(i, Dec(0, 0))

(* C3: an otherwise valid row whose installs cell is "10,000+" is retained *)
(* with installs 10000, and a row whose installs cell is "Free" is absent  *)
(* from the table load_data returns.                                       *)
C3_InstallsNormalized ==
    (Returned /\ acquisitionOk) =>
        \A i \in 1..Len(raw) :
            /\ (/\ raw[i].Installs = T_10000plus
                /\ GoodApp(raw[i]) /\ GoodCategory(raw[i]) /\ GoodRating(raw[i])
                /\ GoodReviews(raw[i]) /\ GoodType(raw[i]) /\ GoodPrice(raw[i]))
               => SurvivesWithInstalls(i, Dec(10000, 0))
            /\ raw[i].Installs = T_Free => ~Survives(i)

C3_Witness ==
    /\ Returned
    /\ acquisitionOk
    /\ \E i, j \in 1..Len(raw) :
          /\ raw[i].Installs = T_10000plus
          /\ SurvivesWithInstalls(i, Dec(10000, 0))
          /\ raw[j].Installs = T_Free
          /\ ~Survives(j)

(* C4: no row named "Life Made Better" and no row of category "1.9" (as   *)
(* the CSV prints it) is in the table load_data returns.                   *)
C4_KnownBadRowsRemoved ==
    (Returned /\ acquisitionOk) =>
        /\ \A k \in 1..Len(df) :
              /\ df[k].App # "Life Made Better"
              /\ df[k].Category \notin {"1.9", Float_1_9}
        /\ \A i \in 1..Len(raw) :
              (raw[i].App = "Life Made Better" \/ raw[i].Category = "1.9")
              => ~Survives(i)

Matches(r, c, ty) ==
    /\ c = "Todas" \/ r.Category = c
    /\ ty = "Ambos" \/ r.Type = ty

(* C5: the filtered table holds exactly the cleaned rows whose category    *)
(* and type match the two selections, 'Todas' and 'Ambos' constraining     *)
(* nothing; with both, it is the whole cleaned table.                      *)
C5_FilterExact ==
    pc \in PostFilter =>
        /\ \A j \in 1..Len(df_filtered) :
              \E k \in 1..Len(df) : df[k] = df_filtered[j]
        /\ \A k \in 1..Len(df) :
              (\E j \in 1..Len(df_filtered) : df_filtered[j] = df[k])
              <=> Matches(df[k], selected_category, selected_type)
        /\ (selected_category = "Todas" /\ selected_type = "Ambos")
              => df_filtered = df

C5_Witness ==
    /\ pc = "done"
    /\ selected_category # "Todas"
    /\ selected_type # "Ambos"
    /\ \E k \in 1..Len(df) : df[k].Category # selected_category
    /\ Len(df_filtered) > 0
    /\ \A j \in 1..Len(df_filtered) :
          /\ df_filtered[j].Category = selected_category
          /\ df_filtered[j].Type = selected_type

(* C6: when the selection matches no cleaned row the run stops with the    *)
(* no-match message and without the load-failure messages, and no metric   *)
(* or chart is computed on an empty table.                                 *)
C6_EmptyFilterHalts ==
    /\ (pc \in PostFilter /\ IsEmpty(df_filtered)) =>
          /\ pc = "stop_filter"
          /\ ERR_NO_MATCH \in messages
          /\ ERR_INTERRUPTED \notin messages
          /\ ERR_KAGGLE \notin messages
          /\ kpi = NotComputed
          /\ price_chart = Unset
    /\ (kpi # NotComputed \/ price_chart # Unset) => ~IsEmpty(df_filtered)

C6_Witness ==
    /\ pc = "stop_filter"
    /\ ~IsEmpty(df)
    /\ IsEmpty(df_filtered)
    /\ ERR_NO_MATCH \in messages

(* C7: when acquisition fails load_data returns the empty table and shows  *)
(* its error, and the run stops at the load guard: no selection is read,   *)
(* nothing is filtered, no metric or chart is computed.                    *)
C7_AcquisitionFailureHalts ==
    ~acquisitionOk =>
        /\ pc \in {"load", "guard_load", "stop_load"}
        /\ Returned => (IsEmpty(df) /\ ERR_KAGGLE \in messages)
        /\ pc = "stop_load" => ERR_INTERRUPTED \in messages
        /\ selected_category = Unset
        /\ selected_type = Unset
        /\ df_filtered = NoTable
        /\ kpi = NotComputed
        /\ price_chart = Unset

C7_Witness ==
    /\ ~acquisitionOk
    /\ pc = "stop_load"
    /\ {ERR_KAGGLE, ERR_INTERRUPTED} \subseteq messages

(* C8: when the download and the read succeed, no run reports a loading or *)
(* authentication failure, whatever the raw table.                         *)
C8_NoLoadErrorWithoutFailure ==
    acquisitionOk =>
        /\ ERR_INTERRUPTED \notin messages
        /\ ERR_KAGGLE \notin messages
        /\ pc # "stop_load"

(* C9: every row load_data returns has installs different from zero and a  *)
(* popularity score that is a number equal to reviews / installs.          *)
C9_PopularityDefined ==
    Returned =>
        \A k \in 1..Len(df) :
            /\ df[k].Installs.m # 0
            /\ df[k].Popularity_Score.kind = "num"
            /\ df[k].Popularity_Score.n * df[k].Installs.m * Pow10(df[k].Reviews.d)
                 = df[k].Popularity_Score.q * df[k].Reviews.m * Pow10(df[k].Installs.d)

(* C10: once loaded, the cleaned table never changes, every filtered table *)
(* is made of the rows of the cleaned table that match the current         *)
(* selections, and with 'Todas' and 'Ambos' it is the cleaned table again. *)
C10_CleanedTableImmutable ==
    [][(cache.cached /\ acquisitionOk) =>
          /\ cache' = cache
          /\ pc' \in PostFilter =>
                /\ \A k \in 1..Len(cache.value) :
                      (\E j \in 1..Len(df_filtered') :
                            df_filtered'[j] = cache.value[k])
                      <=> Matches(cache.value[k], selected_category',
                                  selected_type')
                /\ (selected_category' = "Todas" /\ selected_type' = "Ambos")
                      => df_filtered' = cache.value]_vars

C10_Witness ==
    /\ acquisitionOk
    /\ narrowed
    /\ pc = "done"
    /\ selected_category = "Todas"
    /\ selected_type = "Ambos"
    /\ Len(df) > 1
    /\ df_filtered = cache.value

=============================================================================
